---- MODULE Spec2Model ----
(***************************************************************************)
(* The two live-stream viewer components of the dashboard, WebcamViewer    *)
(* and StreamViewer, as one state machine.  A behaviour is the life of one *)
(* mounted component: `variant' is fixed at Init and says which of the two *)
(* components it is.  One action is one event-loop turn: a user-interface  *)
(* handler or a transport callback, together with the promise              *)
(* continuations (the rest of connectToStream after an await) that the     *)
(* handler's resolve or reject makes runnable.                             *)
(*                                                                         *)
(* Spec and FairSpec are the viewer, UnmountSpec the viewer with its       *)
(* unmount.  IceSpec and SignalingSpec are one negotiation on one          *)
(* signaling socket, FrameSpec the binary frames of one frame socket.      *)
(* MqttSpec is the hook useMQTT, BrokerSpec the hook with a broker that    *)
(* also sends DISCONNECT, IndexSpec the page Index that uses the hook, and *)
(* TogetherSpec the viewer and the hook side by side.                      *)
(***************************************************************************)
EXTENDS Integers, Sequences, FiniteSets, TLC

\* Bounds of the model.
MaxAttempts == 2        \* calls of connectToStream that pass validation
MaxViewerCount == 1     \* cap of the viewer counter
MaxCandidates == 3      \* ice-candidate messages received by one negotiation
MaxConnects == 2        \* connect events of the broker client
MaxPublishes == 2       \* calls of publishMessage that reach the client
MaxMessages == 2        \* messages the broker delivers
MaxFrames == 3          \* binary frames received on one frame socket
MaxNow == 2             \* the last value of the clock
MaxGathered == 2         \* candidates the ICE agent of one peer connection gathers
MaxTogether == 1        \* attempts, connects, publishes plus messages when both sessions run

\* The close code the frame socket's onclose handler treats as normal.
NormalClosure == 1000

Null == "null"
WebcamViewer == "WebcamViewer"
StreamViewer == "StreamViewer"

VARIABLES
  variant,            \* which component this is
  broadcastId,        \* useState: text of the input, a sequence of characters
  isConnecting,       \* useState
  isConnected,        \* useState
  error,              \* useState: a message or Null
  viewerCount,        \* useState
  streamQuality,      \* useState
  connectionType,     \* useState (WebcamViewer only): "WebRTC", "WebSocket", Null
  video,              \* the <video> element behind videoRef: srcObject and src
  peerConnectionRef,  \* useRef: index of the attempt whose object it holds, 0 = null
  websocketRef,       \* useRef
  signalingWsRef,     \* useRef (WebcamViewer only)
  attempts,           \* one record per connectToStream call that passed validation
  mounted,            \* the component is mounted: the effect's cleanup has not run
  peerConnection,     \* one RTCPeerConnection seen from its signaling handler:
                      \* remote description, operations chain, candidates added
  iceCandidates,      \* the ice-candidate messages of that negotiation: received, rejected
  signalingWs,        \* the signaling socket of that negotiation: readyState, messages sent
  offerHandler,       \* the offer case of its onmessage: steps done, answer, local
                      \* description, candidates gathered
  state,              \* useMQTT: useState<MQTTState>
  clientRef,          \* useMQTT: useRef, TRUE when it holds the client
  client,             \* the broker client made by mqtt.connect
  returned,           \* <<what the last call of publishMessage returned>>, <<>> before one
  objectURLs,         \* the object URLs made for the frames of one frame socket
  videoRef,           \* useRef of the <video> element as that socket's handler sees it
  ws,                 \* readyState of that frame socket
  videoStream,        \* Index: useState, the data URL of the current frame
  capturedImages,     \* Index: useState, newest first
  activeControls,     \* Index: useState, the set of directions shown as active
  frameCount,         \* Index: useState
  effectDeps,         \* Index: the lastMessage the message effect last ran for
  pressed,            \* the control buttons the pointer is holding down
  now                 \* Date.now()

\* the viewer component
viewerVars == <<variant, broadcastId, isConnecting, isConnected, error, viewerCount,
                streamQuality, connectionType, video, peerConnectionRef, websocketRef,
                signalingWsRef, attempts, mounted>>

\* the candidate handling of one negotiation
iceVars == <<peerConnection, iceCandidates, signalingWs, offerHandler>>

\* the useMQTT hook
mqttVars == <<state, clientRef, client, returned>>

\* the binary frames of one frame socket
frameVars == <<objectURLs, videoRef, ws>>

\* the page Index, which uses the hook
indexVars == <<videoStream, capturedImages, activeControls, frameCount, effectDeps,
               pressed, now>>

vars == <<viewerVars, iceVars, mqttVars, frameVars, indexVars>>

-----------------------------------------------------------------------------
\* Strings: a broadcast id is a sequence of one-character strings.

IsWhitespace(c) == c = " "

RECURSIVE TrimStart(_)
TrimStart(s) ==
  IF s = <<>> THEN <<>>
  ELSE IF IsWhitespace(Head(s)) THEN TrimStart(Tail(s)) ELSE s

RECURSIVE TrimEnd(_)
TrimEnd(s) ==
  IF s = <<>> THEN <<>>
  ELSE IF IsWhitespace(s[Len(s)]) THEN TrimEnd(SubSeq(s, 1, Len(s) - 1)) ELSE s

\* String.prototype.trim
Trim(s) == TrimEnd(TrimStart(s))

UpperChar(c) == IF c = "a" THEN "A" ELSE IF c = "b" THEN "B" ELSE c

\* String.prototype.toUpperCase
ToUpperCase(s) == [i \in DOMAIN s |-> UpperChar(s[i])]

\* The texts a user types into the input: empty, whitespace only, and an id
\* in lower case with a leading blank.
TypedValues == { <<>>, <<" ">>, <<" ", "a">> }

-----------------------------------------------------------------------------
\* Messages shown to the user.

ValidationMsg == "Please enter a valid Broadcast ID"
WV_NegotiationMsg ==
  "Unable to connect to stream. Please check the Broadcast ID and ensure the broadcaster is active."
SV_NegotiationMsg ==
  "Failed to connect to stream. Please check the Broadcast ID and try again."
PeerLostMsg == "Connection lost or failed"
SignalingLostMsg == "Signaling connection lost"
StreamEndedMsg == "Stream has ended"
ConnectionLostMsg == "Connection lost"
RemoteErrorMsg == "remote error"   \* the message field of a remote 'error' message

-----------------------------------------------------------------------------
\* The component's state as one record, so that a handler is a function from
\* state to state and handlers compose the way the code calls them.

Cur ==
  [ variant |-> variant, broadcastId |-> broadcastId,
    isConnecting |-> isConnecting, isConnected |-> isConnected,
    error |-> error, viewerCount |-> viewerCount,
    streamQuality |-> streamQuality, connectionType |-> connectionType,
    video |-> video, peerConnectionRef |-> peerConnectionRef,
    websocketRef |-> websocketRef, signalingWsRef |-> signalingWsRef,
    attempts |-> attempts, mounted |-> mounted ]

\* the state updates of the viewer with the broker wrapper taken offline
Commit_TakesBrokerOffline(S) ==
  /\ mounted
  /\ variant' = S.variant
  /\ broadcastId' = S.broadcastId
  /\ isConnecting' = S.isConnecting
  /\ isConnected' = S.isConnected
  /\ error' = S.error
  /\ viewerCount' = S.viewerCount
  /\ streamQuality' = S.streamQuality
  /\ connectionType' = S.connectionType
  /\ video' = S.video
  /\ peerConnectionRef' = S.peerConnectionRef
  /\ websocketRef' = S.websocketRef
  /\ signalingWsRef' = S.signalingWsRef
  /\ attempts' = S.attempts
  /\ mounted' = S.mounted
  /\ state' = [state EXCEPT !.connectionStatus = "Disconnected", !.isConnected = FALSE]
  /\ UNCHANGED <<clientRef, client, returned, iceVars, frameVars, indexVars>>

Commit(S) ==
  /\ mounted
  /\ variant' = S.variant
  /\ broadcastId' = S.broadcastId
  /\ isConnecting' = S.isConnecting
  /\ isConnected' = S.isConnected
  /\ error' = S.error
  /\ viewerCount' = S.viewerCount
  /\ streamQuality' = S.streamQuality
  /\ connectionType' = S.connectionType
  /\ video' = S.video
  /\ peerConnectionRef' = S.peerConnectionRef
  /\ websocketRef' = S.websocketRef
  /\ signalingWsRef' = S.signalingWsRef
  /\ attempts' = S.attempts
  /\ mounted' = S.mounted
  /\ UNCHANGED <<iceVars, mqttVars, frameVars, indexVars>>

\* WebSocket.close(): a socket still connecting fails ("failing": readyState
\* CLOSING, and one task will fire the error event and then the close event),
\* an open one starts the closing handshake ("closing": a close event
\* follows), a closing or closed one is left alone.
SocketClose(s) ==
  CASE s = "connecting" -> "failing"
    [] s = "open" -> "closing"
    [] OTHER -> s

\* readyState CONNECTING or OPEN: close() has not been called and the
\* connection has not ended.
SocketLive(s) == s \in {"connecting", "open"}

\* RTCPeerConnection.close(): connectionState becomes closed and no
\* connectionstatechange event is fired.  A closed connection's descriptions
\* are read by nobody, so the record drops them.
PeerClose(A, p) ==
  [A EXCEPT ![p].peerConnection = "closed", ![p].remoteDescription = FALSE]

PeerLive(s) == s # "closed"

\* `message.viewerCount || 0`; an absent field is <<>>, a present one <<n>>.
ViewerCountOrZero(f) == IF f = <<>> THEN 0 ELSE IF f[1] = 0 THEN 0 ELSE f[1]

\* `message.quality || 'HD'`
QualityOrHD(f) == IF f = <<>> THEN "HD" ELSE IF f[1] = "" THEN "HD" ELSE f[1]

-----------------------------------------------------------------------------
\* Event data of a socket message: a text that parses as JSON (with its type
\* tag and, for stream-info, its two fields), a text that does not, or a Blob.

Json(t) == [kind |-> "json", type |-> t, viewerCount |-> <<>>, quality |-> <<>>]
StreamInfo(v, q) == [kind |-> "json", type |-> "stream-info", viewerCount |-> v, quality |-> q]
NotJson == [kind |-> "text", type |-> "", viewerCount |-> <<>>, quality |-> <<>>]
Blob == [kind |-> "blob", type |-> "", viewerCount |-> <<>>, quality |-> <<>>]

\* The stream-info messages a broadcaster sends: both fields or neither.
StreamInfos == { StreamInfo(<<>>, <<>>), StreamInfo(<<MaxViewerCount>>, <<"SD">>) }

SignalingData ==
  { Json(t) : t \in {"offer", "ice-candidate", "error", "stream-ended",
                     "stream-not-found", "unknown"} }
  \cup StreamInfos \cup { NotJson }

FrameData ==
  { Json(t) : t \in {"error", "stream-ended", "unknown"} }
  \cup StreamInfos \cup { NotJson, Blob }

-----------------------------------------------------------------------------
\* WebcamViewer

\* disconnect
WV_disconnect(S) ==
  LET p == S.peerConnectionRef
      g == S.signalingWsRef
      w == S.websocketRef
      A1 == IF p # 0 THEN PeerClose(S.attempts, p) ELSE S.attempts
      A2 == IF g # 0 THEN [A1 EXCEPT ![g].signalingWs = SocketClose(@)] ELSE A1
      A3 == IF w # 0 THEN [A2 EXCEPT ![w].ws = SocketClose(@)] ELSE A2
  IN [S EXCEPT !.attempts = A3,
               !.peerConnectionRef = 0,
               !.signalingWsRef = 0,
               !.websocketRef = 0,
               !.video = [srcObject |-> 0, src |-> ""],
               !.isConnected = FALSE,
               !.isConnecting = FALSE,
               !.error = Null,
               !.viewerCount = 0,
               !.connectionType = Null]

\* connectToStream, the inner catch: both transports rejected
WV_rejectWebSocket(S, a) ==
  IF S.attempts[a].websocket # "pending" THEN S
  ELSE [S EXCEPT !.attempts[a].websocket = "rejected",
                 !.error = WV_NegotiationMsg,
                 !.isConnecting = FALSE]

\* connectToStream after `await connectWebSocket()` returned
WV_resolveWebSocket(S, a) ==
  IF S.attempts[a].websocket # "pending" THEN S
  ELSE [S EXCEPT !.attempts[a].websocket = "resolved",
                 !.connectionType = "WebSocket"]

\* connectWebSocket, up to the return of the promise
WV_connectWebSocket(S, a) ==
  [S EXCEPT !.attempts[a].streamUrl = Trim(S.attempts[a].broadcastId),
            !.attempts[a].ws = "connecting",
            !.attempts[a].wsTimeout = "armed",
            !.attempts[a].websocket = "pending",
            !.websocketRef = a]

\* connectToStream, the outer catch: the primary rejected
WV_rejectWebRTC(S, a) ==
  IF S.attempts[a].webrtc # "pending" THEN S
  ELSE WV_connectWebSocket([S EXCEPT !.attempts[a].webrtc = "rejected"], a)

\* connectToStream after `await connectWebRTC()` returned
WV_resolveWebRTC(S, a) ==
  IF S.attempts[a].webrtc # "pending" THEN S
  ELSE [S EXCEPT !.attempts[a].webrtc = "resolved",
                 !.connectionType = "WebRTC"]

\* connectWebRTC, up to the return of the promise
WV_connectWebRTC(S) ==
  LET a == Len(S.attempts) + 1
      new == [ broadcastId |-> S.broadcastId,      \* captured by the closures
               isConnected |-> S.isConnected,      \* captured by the closures
               signalingUrl |-> S.broadcastId,
               streamUrl |-> <<>>,
               signalingWs |-> "connecting",
               connectionTimeout |-> "armed",
               peerConnection |-> "new",
               remoteDescription |-> FALSE,
               webrtc |-> "pending",
               ws |-> "none",
               wsTimeout |-> "off",
               websocket |-> "none" ]
  IN [S EXCEPT !.attempts = Append(@, new),
               !.signalingWsRef = a,
               !.peerConnectionRef = a]

\* connectToStream without the trim() of its guard: a whitespace-only id
\* passes and the negotiation starts
WV_connectToStream_NoTrim(S) ==
  IF S.broadcastId = <<>>
  THEN [S EXCEPT !.error = ValidationMsg]
  ELSE WV_connectWebRTC([S EXCEPT !.isConnecting = TRUE,
                                  !.error = Null,
                                  !.connectionType = Null])

\* connectToStream
WV_connectToStream(S) ==
  IF Trim(S.broadcastId) = <<>>
  THEN [S EXCEPT !.error = ValidationMsg]
  ELSE WV_connectWebRTC([S EXCEPT !.isConnecting = TRUE,
                                  !.error = Null,
                                  !.connectionType = Null])

\* the signaling open timer of connectWebRTC
WV_connectionTimeout(S, a) ==
  WV_rejectWebRTC([S EXCEPT !.attempts[a].connectionTimeout = "off"], a)

\* clearTimeout(connectionTimeout) in connectWebRTC
WV_clearSignalingTimeout(S, a) == [S EXCEPT !.attempts[a].connectionTimeout = "off"]

WV_signalingWs_onopen(S, a) == WV_clearSignalingTimeout(S, a)

WV_signalingWs_onerror(S, a) == WV_rejectWebRTC(WV_clearSignalingTimeout(S, a), a)

WV_ontrack(S, a) ==
  WV_resolveWebRTC([S EXCEPT !.video.srcObject = a,
                             !.isConnected = TRUE,
                             !.isConnecting = FALSE,
                             !.viewerCount = @ + 1], a)

\* reads peerConnection.connectionState
WV_onconnectionstatechange(S, a) ==
  CASE S.attempts[a].peerConnection = "connected" ->
         [S EXCEPT !.isConnected = TRUE, !.isConnecting = FALSE]
    [] S.attempts[a].peerConnection \in {"disconnected", "failed"} ->
         [S EXCEPT !.error = PeerLostMsg, !.isConnected = FALSE]
    [] S.attempts[a].peerConnection = "closed" ->
         [S EXCEPT !.isConnected = FALSE]
    [] OTHER -> S

\* signalingWs.onmessage with the break of case 'stream-info' missing: the
\* case falls through into case 'error' and rejects
WV_signalingWs_onmessage_NoBreak(S, a, data) ==
  IF data.kind # "json" THEN S     \* JSON.parse throws, caught and logged
  ELSE CASE data.type = "offer" ->
              \* on a closed peer connection setRemoteDescription throws
              IF S.attempts[a].peerConnection = "closed" THEN S
              ELSE [S EXCEPT !.attempts[a].remoteDescription = TRUE]
         [] data.type = "ice-candidate" -> S
         [] data.type = "stream-info" ->
              WV_rejectWebRTC(
                [S EXCEPT !.viewerCount = ViewerCountOrZero(data.viewerCount),
                          !.streamQuality = QualityOrHD(data.quality)], a)
         [] data.type = "error" -> WV_rejectWebRTC(S, a)
         [] data.type = "stream-ended" ->
              WV_disconnect([S EXCEPT !.error = StreamEndedMsg])
         [] data.type = "stream-not-found" -> WV_rejectWebRTC(S, a)
         [] OTHER -> S

\* signalingWs.onmessage with a default case that rejects
WV_signalingWs_onmessage_DefaultRejects(S, a, data) ==
  IF data.kind # "json" THEN S
  ELSE CASE data.type = "offer" ->
              IF S.attempts[a].peerConnection = "closed" THEN S
              ELSE [S EXCEPT !.attempts[a].remoteDescription = TRUE]
         [] data.type = "ice-candidate" -> S
         [] data.type = "stream-info" ->
              [S EXCEPT !.viewerCount = ViewerCountOrZero(data.viewerCount),
                        !.streamQuality = QualityOrHD(data.quality)]
         [] data.type = "error" -> WV_rejectWebRTC(S, a)
         [] data.type = "stream-ended" ->
              WV_disconnect([S EXCEPT !.error = StreamEndedMsg])
         [] data.type = "stream-not-found" -> WV_rejectWebRTC(S, a)
         [] OTHER -> WV_rejectWebRTC(S, a)

WV_signalingWs_onmessage(S, a, data) ==
  IF data.kind # "json" THEN S     \* JSON.parse throws, caught and logged
  ELSE CASE data.type = "offer" ->
              \* on a closed peer connection setRemoteDescription throws
              IF S.attempts[a].peerConnection = "closed" THEN S
              ELSE [S EXCEPT !.attempts[a].remoteDescription = TRUE]
         [] data.type = "ice-candidate" -> S
         [] data.type = "stream-info" ->
              [S EXCEPT !.viewerCount = ViewerCountOrZero(data.viewerCount),
                        !.streamQuality = QualityOrHD(data.quality)]
         [] data.type = "error" -> WV_rejectWebRTC(S, a)
         [] data.type = "stream-ended" ->
              WV_disconnect([S EXCEPT !.error = StreamEndedMsg])
         [] data.type = "stream-not-found" -> WV_rejectWebRTC(S, a)
         [] OTHER -> S

\* tests the isConnected of the render that created the handler
WV_signalingWs_onclose(S, a) ==
  IF S.attempts[a].isConnected THEN [S EXCEPT !.error = SignalingLostMsg] ELSE S

\* the frame socket open timer of connectWebSocket
WV_wsTimeout(S, a) ==
  WV_rejectWebSocket([S EXCEPT !.attempts[a].wsTimeout = "off"], a)

\* clearTimeout(connectionTimeout) in connectWebSocket
WV_clearWsTimeout(S, a) == [S EXCEPT !.attempts[a].wsTimeout = "off"]

WV_ws_onopen(S, a) ==
  WV_resolveWebSocket([WV_clearWsTimeout(S, a) EXCEPT !.isConnected = TRUE,
                                                      !.isConnecting = FALSE], a)

\* ws.onmessage whose catch sets an error and rejects
WV_ws_onmessage_CatchFails(S, a, data) ==
  CASE data.kind = "blob" -> [S EXCEPT !.video.src = "blob"]
    [] data.kind = "text" -> WV_rejectWebSocket([S EXCEPT !.error = RemoteErrorMsg], a)
    [] OTHER ->
       CASE data.type = "stream-info" ->
              [S EXCEPT !.viewerCount = ViewerCountOrZero(data.viewerCount),
                        !.streamQuality = QualityOrHD(data.quality)]
         [] data.type = "error" ->
              WV_rejectWebSocket([S EXCEPT !.error = RemoteErrorMsg], a)
         [] data.type = "stream-ended" ->
              WV_disconnect([S EXCEPT !.error = StreamEndedMsg])
         [] OTHER -> S

WV_ws_onmessage(S, a, data) ==
  CASE data.kind = "blob" -> [S EXCEPT !.video.src = "blob"]
    [] data.kind = "text" -> S     \* JSON.parse throws, caught and logged
    [] OTHER ->
       CASE data.type = "stream-info" ->
              [S EXCEPT !.viewerCount = ViewerCountOrZero(data.viewerCount),
                        !.streamQuality = QualityOrHD(data.quality)]
         [] data.type = "error" ->
              WV_rejectWebSocket([S EXCEPT !.error = RemoteErrorMsg], a)
         [] data.type = "stream-ended" ->
              WV_disconnect([S EXCEPT !.error = StreamEndedMsg])
         [] OTHER -> S

WV_ws_onerror(S, a) == WV_rejectWebSocket(WV_clearWsTimeout(S, a), a)

WV_ws_onclose(S, a, code) ==
  LET S1 == [S EXCEPT !.isConnected = FALSE]
  IN IF code # NormalClosure THEN [S1 EXCEPT !.error = ConnectionLostMsg] ELSE S1

\* getStatusText
WV_getStatusText(S) ==
  IF S.error # Null THEN "Error"
  ELSE IF S.isConnected THEN "Connected"
  ELSE IF S.isConnecting THEN "Connecting"
  ELSE "Disconnected"

-----------------------------------------------------------------------------
\* StreamViewer

\* disconnect: the signaling socket is a local of connectWebRTC, not a ref
SV_disconnect(S) ==
  LET p == S.peerConnectionRef
      w == S.websocketRef
      A1 == IF p # 0 THEN PeerClose(S.attempts, p) ELSE S.attempts
      A2 == IF w # 0 THEN [A1 EXCEPT ![w].ws = SocketClose(@)] ELSE A1
  IN [S EXCEPT !.attempts = A2,
               !.peerConnectionRef = 0,
               !.websocketRef = 0,
               !.video = [srcObject |-> 0, src |-> ""],
               !.isConnected = FALSE,
               !.isConnecting = FALSE,
               !.error = Null,
               !.viewerCount = 0]

\* connectToStream, the inner catch: both transports rejected
SV_rejectWebSocket(S, a) ==
  IF S.attempts[a].websocket # "pending" THEN S
  ELSE [S EXCEPT !.attempts[a].websocket = "rejected",
                 !.error = SV_NegotiationMsg,
                 !.isConnecting = FALSE]

\* connectToStream after `await connectWebSocket()` returned
SV_resolveWebSocket(S, a) ==
  IF S.attempts[a].websocket # "pending" THEN S
  ELSE [S EXCEPT !.attempts[a].websocket = "resolved"]

\* connectWebSocket, up to the return of the promise
SV_connectWebSocket(S, a) ==
  [S EXCEPT !.attempts[a].streamUrl = S.attempts[a].broadcastId,
            !.attempts[a].ws = "connecting",
            !.attempts[a].websocket = "pending",
            !.websocketRef = a]

\* connectToStream, the outer catch: the primary rejected
SV_rejectWebRTC(S, a) ==
  IF S.attempts[a].webrtc # "pending" THEN S
  ELSE SV_connectWebSocket([S EXCEPT !.attempts[a].webrtc = "rejected"], a)

\* connectToStream after `await connectWebRTC()` returned
SV_resolveWebRTC(S, a) ==
  IF S.attempts[a].webrtc # "pending" THEN S
  ELSE [S EXCEPT !.attempts[a].webrtc = "resolved"]

\* connectWebRTC, up to the return of the promise: no open timer
SV_connectWebRTC(S) ==
  LET a == Len(S.attempts) + 1
      new == [ broadcastId |-> S.broadcastId,
               isConnected |-> S.isConnected,
               signalingUrl |-> S.broadcastId,
               streamUrl |-> <<>>,
               signalingWs |-> "connecting",
               connectionTimeout |-> "off",
               peerConnection |-> "new",
               remoteDescription |-> FALSE,
               webrtc |-> "pending",
               ws |-> "none",
               wsTimeout |-> "off",
               websocket |-> "none" ]
  IN [S EXCEPT !.attempts = Append(@, new),
               !.peerConnectionRef = a]

\* connectToStream
SV_connectToStream(S) ==
  IF Trim(S.broadcastId) = <<>>
  THEN [S EXCEPT !.error = ValidationMsg]
  ELSE SV_connectWebRTC([S EXCEPT !.isConnecting = TRUE, !.error = Null])

\* the second assignment of onopen: sends join-stream
SV_signalingWs_onopen(S, a) == S

SV_signalingWs_onerror(S, a) == SV_rejectWebRTC(S, a)

SV_ontrack(S, a) ==
  SV_resolveWebRTC([S EXCEPT !.video.srcObject = a,
                             !.isConnected = TRUE,
                             !.isConnecting = FALSE], a)

SV_onconnectionstatechange(S, a) ==
  IF S.attempts[a].peerConnection = "failed" THEN SV_rejectWebRTC(S, a) ELSE S

SV_signalingWs_onmessage(S, a, data) ==
  IF data.kind # "json" THEN S     \* JSON.parse throws out of the handler
  ELSE CASE data.type = "offer" ->
              IF S.attempts[a].peerConnection = "closed" THEN S
              ELSE [S EXCEPT !.attempts[a].remoteDescription = TRUE]
         [] data.type = "ice-candidate" -> S
         [] data.type = "stream-info" ->
              [S EXCEPT !.viewerCount = ViewerCountOrZero(data.viewerCount),
                        !.streamQuality = QualityOrHD(data.quality)]
         [] data.type = "error" -> SV_rejectWebRTC(S, a)
         [] data.type = "stream-ended" ->
              SV_disconnect([S EXCEPT !.error = StreamEndedMsg])
         [] OTHER -> S

SV_ws_onopen(S, a) ==
  SV_resolveWebSocket([S EXCEPT !.isConnected = TRUE, !.isConnecting = FALSE], a)

SV_ws_onmessage(S, a, data) ==
  CASE data.kind = "blob" -> [S EXCEPT !.video.src = "blob"]
    [] data.kind = "text" -> S     \* JSON.parse throws, caught and logged
    [] OTHER ->
       CASE data.type = "stream-info" ->
              [S EXCEPT !.viewerCount = ViewerCountOrZero(data.viewerCount),
                        !.streamQuality = QualityOrHD(data.quality)]
         [] data.type = "error" ->
              SV_rejectWebSocket([S EXCEPT !.error = RemoteErrorMsg], a)
         [] OTHER -> S

SV_ws_onerror(S, a) == SV_rejectWebSocket(S, a)

SV_ws_onclose(S, a, code) ==
  [S EXCEPT !.isConnected = FALSE, !.error = ConnectionLostMsg]

\* the status text of the header
SV_statusText(S) ==
  IF S.error # Null THEN "Error"
  ELSE IF S.isConnected THEN "Connected"
  ELSE IF S.isConnecting THEN "Connecting"
  ELSE "Disconnected"

-----------------------------------------------------------------------------
\* Dispatch on the component.

IsWV == variant = WebcamViewer

connectToStream(S) == IF IsWV THEN WV_connectToStream(S) ELSE SV_connectToStream(S)
disconnect(S) == IF IsWV THEN WV_disconnect(S) ELSE SV_disconnect(S)
StatusText(S) == IF IsWV THEN WV_getStatusText(S) ELSE SV_statusText(S)

Attempts == DOMAIN attempts
Blank(s) == Trim(s) = <<>>

\* The connection states the ICE agent reports, once it has both
\* descriptions: it connects or fails, and a connected one may fail.
PeerStateNext(s) ==
  CASE s = "new" -> {"connected", "failed"}
    [] s = "connected" -> {"failed"}
    [] OTHER -> {}

\* The code of a close event that follows no error event: after close()
\* without a code it is what the server's Close frame carried (1005 when it
\* carried none), or 1006 when none came; a server that closes picks its code.
CloseCodes(s) ==
  CASE s = "closing" -> {NormalClosure, 1005, 1006}
    [] s = "open" -> {NormalClosure, 1001}
    [] OTHER -> {}

\* The code of the close event of a connection that failed.
AbnormalClosure == {1006}

-----------------------------------------------------------------------------
\* The peer connection of one negotiation, as its signaling handler sees it.
\* setRemoteDescription and addIceCandidate are put on the connection's
\* operations chain: an operation runs at once when the chain is empty, and
\* otherwise after the operations before it.

\* new RTCPeerConnection(rtcConfiguration)
NewPeerConnection ==
  [remoteDescription |-> Null, operations |-> <<>>, candidates |-> <<>>]

\* message.candidate of the ice-candidate messages a broadcaster sends
Candidates == {"c1", "c2"}

\* addIceCandidate(c) when it runs: it rejects with InvalidStateError while
\* the remote description is null, and hands c to the ICE agent otherwise
AddIceCandidateRuns(P, c) ==
  IF P.remoteDescription = Null THEN P
  ELSE [P EXCEPT !.candidates = Append(@, c)]

\* the operations chained behind a finished one run in order
RECURSIVE RunChain(_)
RunChain(P) ==
  IF P.operations = <<>> THEN P
  ELSE RunChain(AddIceCandidateRuns([P EXCEPT !.operations = Tail(@)], Head(P.operations)))

\* case 'offer': await peerConnection.setRemoteDescription(message.offer)
onmessage_offer(P) == [P EXCEPT !.operations = Append(@, "setRemoteDescription")]

\* case 'ice-candidate': await peerConnection.addIceCandidate(message.candidate)
onmessage_iceCandidate(P, c) ==
  IF P.operations = <<>> THEN AddIceCandidateRuns(P, c)
  ELSE [P EXCEPT !.operations = Append(@, c)]

\* the promise of that addIceCandidate call rejects: the await throws, and the
\* handler's catch logs it (WebcamViewer) or nothing handles it (StreamViewer)
AddIceCandidateRejects(P) == P.operations = <<>> /\ P.remoteDescription = Null

-----------------------------------------------------------------------------
\* The signaling socket of that negotiation and what is sent on it.

\* new WebSocket(signalingUrl)
NewWebSocket == [readyState |-> "connecting", sent |-> <<>>]

\* signalingWs.send(JSON.stringify({type, ...})): an open socket sends, a
\* closing or closed one drops the message, a connecting one throws
send(W, type) ==
  IF W.readyState = "open" THEN [W EXCEPT !.sent = Append(@, type)] ELSE W

\* signalingWs.onopen
signalingWs_onopen(W) == send(W, "join-stream")

\* peerConnection.onicecandidate with a candidate.  WebcamViewer tests the
\* readyState before it sends, StreamViewer does not.
onicecandidate(W) == send(W, "ice-candidate")

\* case 'offer' with the answer sent before it is the local description
OfferSteps_SendsBeforeLocal ==
  <<"setRemoteDescription", "createAnswer", "send", "setLocalDescription">>

\* case 'offer': the three awaited calls and the send, in the order of the code
OfferSteps == <<"setRemoteDescription", "createAnswer", "setLocalDescription", "send">>

\* one step of the offer case: the handler's values afterwards
OfferStep_handler(H, name) ==
  CASE name = "createAnswer" -> [H EXCEPT !.answer = "answer"]
    [] name = "setLocalDescription" -> [H EXCEPT !.localDescription = H.answer]
    [] OTHER -> H

\* one step of the offer case: the socket afterwards
OfferStep_socket(W, name) == IF name = "send" THEN send(W, "answer") ELSE W

-----------------------------------------------------------------------------
\* useMQTT: the hook's state and the broker client.

\* useState<MQTTState>({...}).  lastMessage is <<>> for null and <<m>> for
\* the object m.
InitialState ==
  [client |-> Null, isConnected |-> FALSE, connectionStatus |-> "Disconnected",
   error |-> Null, lastMessage |-> <<>>]

\* no client yet: mqtt.connect has not been called
NoClient ==
  [phase |-> "none", reconnecting |-> FALSE, subscribes |-> <<>>, published |-> <<>>,
   connects |-> 0, delivered |-> 0]

StreamTopic == "userxyz/device/cam/stream"
CaptureTopic == "userxyz/device/cam/capture"

\* two of the six directions of the control buttons
Directions == {"front", "back"}

\* `userxyz/device/control/${direction}`
ControlTopicOf(direction) ==
  CASE direction = "front" -> "userxyz/device/control/front"
    [] direction = "back" -> "userxyz/device/control/back"

ControlTopic == ControlTopicOf("front")

\* subscriptionTopics
subscriptionTopics == <<StreamTopic, CaptureTopic>>

\* a subscribe for the first of subscriptionTopics only
Subscribe_StreamOnly(C) ==
  [C EXCEPT !.subscribes = Append(@, [topic |-> subscriptionTopics[1], qos |-> 1])]

\* client.subscribe(topic, { qos: 1 }, ...) for each of subscriptionTopics
Subscribe(C) ==
  [C EXCEPT !.subscribes =
     @ \o [i \in DOMAIN subscriptionTopics |-> [topic |-> subscriptionTopics[i], qos |-> 1]]]

\* message.toString('base64')
Base64(message) == <<"base64", message>>

\* mqtt.connect(brokerUrl, options): a client that starts connecting
mqtt_connect == [NoClient EXCEPT !.phase = "connecting"]

\* connectToMQTT, run by the effect when the hook mounts
connectToMQTT(st) == [st EXCEPT !.client = "client", !.connectionStatus = "Connecting"]

\* client.on('connect')
on_connect(st) ==
  [st EXCEPT !.client = "client", !.isConnected = TRUE,
             !.connectionStatus = "Connected", !.error = Null]

\* client.on('message')
on_message(st, topic, message, timestamp) ==
  IF topic = StreamTopic \/ topic = CaptureTopic
  THEN [st EXCEPT !.lastMessage =
          <<[topic |-> topic, message |-> Base64(message), timestamp |-> timestamp]>>]
  ELSE st

\* client.on('error') without the update of isConnected
on_error_KeepsConnected(st) ==
  [st EXCEPT !.connectionStatus = "Error", !.error = "Connection failed"]

\* client.on('error')
on_error(st) ==
  [st EXCEPT !.connectionStatus = "Error", !.error = "Connection failed",
             !.isConnected = FALSE]

\* client.on('disconnect')
on_disconnect(st) == [st EXCEPT !.connectionStatus = "Disconnected", !.isConnected = FALSE]

\* client.on('reconnect')
on_reconnect(st) == [st EXCEPT !.connectionStatus = "Reconnecting"]

\* client.on('offline') without the update of isConnected
on_offline_KeepsConnected(st) == [st EXCEPT !.connectionStatus = "Disconnected"]

\* client.on('offline')
on_offline(st) == [st EXCEPT !.connectionStatus = "Disconnected", !.isConnected = FALSE]

\* publishMessage returns true: the test `state.client && state.isConnected'
publishMessage_returns(st) == st.client # Null /\ st.isConnected

\* publishMessage: state.client.publish(topic, message, { qos: 1 }, ...)
publishMessage(st, C, topic, message) ==
  IF publishMessage_returns(st)
  THEN [C EXCEPT !.published = Append(@, [topic |-> topic, message |-> message, qos |-> 1])]
  ELSE C

-----------------------------------------------------------------------------
\* Index: the handlers of the control buttons.  Each calls publishMessage of
\* the hook and changes the active set only when that returned true.

\* handleControlPress: the active set afterwards
handleControlPress(st, A, direction) ==
  IF publishMessage_returns(st) THEN A \cup {direction} ELSE A

\* handleControlRelease that removes the direction whatever publishMessage
\* returned
handleControlRelease_Always(st, A, direction) == A \ {direction}

\* handleControlRelease: the active set afterwards
handleControlRelease(st, A, direction) ==
  IF publishMessage_returns(st) THEN A \ {direction} ELSE A

\* disabled={!isConnected}: React calls no onMouseDown and no onMouseUp of a
\* disabled button
ButtonEnabled(st) == st.isConnected

\* `data:image/jpeg;base64,${message}`
DataUrl(message) == <<"data:image/jpeg;base64,", message>>

\* newImage: the id is Date.now().toString(), the timestamp is of the same clock
CapturedImage(message, t) == [id |-> t, base64 |-> DataUrl(message), timestamp |-> t]

\* the message effect, setVideoStream
effect_videoStream(lastMessage, v) ==
  IF lastMessage = <<>> THEN v
  ELSE IF lastMessage[1].topic = StreamTopic THEN DataUrl(lastMessage[1].message) ELSE v

\* the message effect, setFrameCount(prev => prev + 1)
effect_frameCount(lastMessage, n) ==
  IF lastMessage = <<>> THEN n
  ELSE IF lastMessage[1].topic = StreamTopic THEN n + 1 ELSE n

\* the message effect, setCapturedImages(prev => [newImage, ...prev])
effect_capturedImages(lastMessage, images, t) ==
  IF lastMessage = <<>> THEN images
  ELSE IF lastMessage[1].topic = StreamTopic THEN images
  ELSE IF lastMessage[1].topic = CaptureTopic
       THEN <<CapturedImage(lastMessage[1].message, t)>> \o images
       ELSE images

\* deleteImage: prev.filter(img => img.id !== imageId)
deleteImage(images, imageId) == SelectSeq(images, LAMBDA img : img.id # imageId)

-----------------------------------------------------------------------------
\* The binary frames of the fallback frame socket.  An object URL is a record
\* of whether it was revoked and whether a timer is set to revoke it; the
\* element's src is the index of the URL it shows, 0 for ''.

\* URL.createObjectURL(event.data)
createObjectURL(U) == Append(U, [revoked |-> FALSE, timer |-> FALSE])

\* setTimeout(() => URL.revokeObjectURL(url), 1000)
setRevokeTimeout(U, url) == [U EXCEPT ![url].timer = TRUE]

\* URL.revokeObjectURL(url), run by that timer
revokeObjectURL(U, url) == [U EXCEPT ![url].revoked = TRUE, ![url].timer = FALSE]

\* ws.onmessage of WebcamViewer, event.data a Blob: the URLs afterwards
WV_onBlob_objectURLs(U, V) ==
  IF V.current THEN setRevokeTimeout(createObjectURL(U), Len(U) + 1)
  ELSE createObjectURL(U)

\* ws.onmessage of StreamViewer, event.data a Blob: the URLs afterwards
SV_onBlob_objectURLs(U, V) == createObjectURL(U)

\* ws.onmessage of either, event.data a Blob: the element afterwards
onBlob_videoRef(U, V) == IF V.current THEN [V EXCEPT !.src = Len(U) + 1] ELSE V

\* disconnect(): the element afterwards
disconnect_videoRef(V) == IF V.current THEN [V EXCEPT !.src = 0] ELSE V

-----------------------------------------------------------------------------
\* Initial state: the component as mounted.

Init ==
  /\ variant \in {WebcamViewer, StreamViewer}
  /\ broadcastId = <<>>
  /\ isConnecting = FALSE
  /\ isConnected = FALSE
  /\ error = Null
  /\ viewerCount = 0
  /\ streamQuality = "HD"
  /\ connectionType = Null
  /\ video = [srcObject |-> 0, src |-> ""]
  /\ peerConnectionRef = 0
  /\ websocketRef = 0
  /\ signalingWsRef = 0
  /\ attempts = <<>>
  /\ mounted = TRUE
  /\ peerConnection = NewPeerConnection
  /\ iceCandidates = [received |-> <<>>, rejected |-> <<>>]
  /\ signalingWs = NewWebSocket
  /\ offerHandler = [step |-> 1, answer |-> Null, localDescription |-> Null, gathered |-> 0]
  /\ state = InitialState
  /\ clientRef = FALSE
  /\ client = NoClient
  /\ returned = <<>>
  /\ objectURLs = <<>>
  /\ videoRef = [current |-> TRUE, src |-> 0]
  /\ ws = "open"
  /\ videoStream = ""
  /\ capturedImages = <<>>
  /\ activeControls = {}
  /\ frameCount = 0
  /\ effectDeps = <<>>
  /\ pressed = {}
  /\ now = 1

-----------------------------------------------------------------------------
\* User interface.

\* onChange of the input.  The input is disabled while connecting; in
\* StreamViewer the form is rendered only while not connected.  The text is
\* read by the next connect only, so typing is modelled while the bound on
\* the attempts leaves room for one.
SetBroadcastId(v) ==
  /\ Len(attempts) < MaxAttempts
  /\ ~isConnecting
  /\ IsWV \/ ~isConnected
  /\ LET id == IF IsWV THEN ToUpperCase(v) ELSE v
     IN /\ id # broadcastId
        /\ Commit([Cur EXCEPT !.broadcastId = id])

\* onClick of the connect button: rendered while not connected, disabled
\* while connecting or while the id is blank.
ClickConnect ==
  /\ ~isConnected
  /\ ~isConnecting
  /\ ~Blank(broadcastId)
  /\ Len(attempts) < MaxAttempts
  /\ Commit(connectToStream(Cur))

\* connectToStream entered with a blank id.  The button's disabled attribute
\* keeps a click from doing so; the function guards itself all the same, and
\* this is the call its guard is for.
CallConnectToStreamBlank ==
  /\ ~isConnected
  /\ Blank(broadcastId)
  /\ Commit(connectToStream(Cur))

\* onKeyPress of the input (WebcamViewer): handleKeyPress
HandleKeyPress ==
  /\ IsWV
  /\ ~isConnecting
  /\ ~Blank(broadcastId)
  /\ Len(attempts) < MaxAttempts
  /\ Commit(connectToStream(Cur))

\* onClick of Try Again, rendered while an error is shown
TryAgain ==
  /\ error # Null
  /\ LET S1 == [Cur EXCEPT !.error = Null]
     IN IF IsWV
        THEN IF Blank(broadcastId)
             THEN Commit(S1)
             ELSE /\ Len(attempts) < MaxAttempts
                  /\ Commit(WV_connectToStream(S1))
        ELSE Commit(SV_disconnect(S1))

\* onClick of the disconnect button, rendered while connected
ClickDisconnect ==
  /\ isConnected
  /\ Commit(disconnect(Cur))

-----------------------------------------------------------------------------
\* Signaling socket and its open timer.

SigOpen(a) ==
  /\ a \in Attempts
  /\ attempts[a].signalingWs = "connecting"
  /\ LET S1 == [Cur EXCEPT !.attempts[a].signalingWs = "open"]
     IN Commit(IF IsWV THEN WV_signalingWs_onopen(S1, a)
               ELSE SV_signalingWs_onopen(S1, a))

\* The connection failed, or close() was called on a socket that was still
\* connecting: one task sets readyState CLOSED and fires the error event and
\* then the close event; the promise continuations that onerror made runnable
\* run between the two.  StreamViewer sets no onclose on this socket.
SigError(a) ==
  /\ a \in Attempts
  /\ attempts[a].signalingWs \in {"connecting", "open", "failing"}
  /\ LET S1 == [Cur EXCEPT !.attempts[a].signalingWs = "closed"]
     IN Commit(IF IsWV
               THEN WV_signalingWs_onclose(WV_signalingWs_onerror(S1, a), a)
               ELSE SV_signalingWs_onerror(S1, a))

\* the close event of a connection closed by the server or by close()
SigClose(a) ==
  /\ a \in Attempts
  /\ attempts[a].signalingWs \in {"open", "closing"}
  /\ LET S1 == [Cur EXCEPT !.attempts[a].signalingWs = "closed"]
     IN Commit(IF IsWV THEN WV_signalingWs_onclose(S1, a) ELSE S1)

SigMessage(a, data) ==
  /\ a \in Attempts
  /\ attempts[a].signalingWs = "open"
  /\ Commit(IF IsWV THEN WV_signalingWs_onmessage(Cur, a, data)
            ELSE SV_signalingWs_onmessage(Cur, a, data))

SigTimeout(a) ==
  /\ a \in Attempts
  /\ IsWV
  /\ attempts[a].connectionTimeout = "armed"
  /\ Commit(WV_connectionTimeout(Cur, a))

-----------------------------------------------------------------------------
\* Peer connection.  Tracks and connection state changes follow the remote
\* description.

PcTrack(a) ==
  /\ a \in Attempts
  /\ attempts[a].peerConnection # "closed"
  /\ attempts[a].remoteDescription
  /\ IsWV => viewerCount < MaxViewerCount
  /\ Commit(IF IsWV THEN WV_ontrack(Cur, a) ELSE SV_ontrack(Cur, a))

PcStateChange(a, s) ==
  /\ a \in Attempts
  /\ attempts[a].remoteDescription
  /\ s \in PeerStateNext(attempts[a].peerConnection)
  /\ LET S1 == [Cur EXCEPT !.attempts[a].peerConnection = s]
     IN Commit(IF IsWV THEN WV_onconnectionstatechange(S1, a)
               ELSE SV_onconnectionstatechange(S1, a))

-----------------------------------------------------------------------------
\* Frame socket and its open timer.

WsOpen(a) ==
  /\ a \in Attempts
  /\ attempts[a].ws = "connecting"
  /\ LET S1 == [Cur EXCEPT !.attempts[a].ws = "open"]
     IN Commit(IF IsWV THEN WV_ws_onopen(S1, a) ELSE SV_ws_onopen(S1, a))

\* the error event and then the close event of a connection that failed
WsError(a) ==
  /\ a \in Attempts
  /\ attempts[a].ws \in {"connecting", "open", "failing"}
  /\ \E code \in AbnormalClosure :
       LET S1 == [Cur EXCEPT !.attempts[a].ws = "closed"]
       IN Commit(IF IsWV THEN WV_ws_onclose(WV_ws_onerror(S1, a), a, code)
                 ELSE SV_ws_onclose(SV_ws_onerror(S1, a), a, code))

WsClose(a, code) ==
  /\ a \in Attempts
  /\ code \in CloseCodes(attempts[a].ws)
  /\ LET S1 == [Cur EXCEPT !.attempts[a].ws = "closed"]
     IN Commit(IF IsWV THEN WV_ws_onclose(S1, a, code) ELSE SV_ws_onclose(S1, a, code))

WsMessage(a, data) ==
  /\ a \in Attempts
  /\ attempts[a].ws = "open"
  /\ Commit(IF IsWV THEN WV_ws_onmessage(Cur, a, data) ELSE SV_ws_onmessage(Cur, a, data))

WsTimeout(a) ==
  /\ a \in Attempts
  /\ IsWV
  /\ attempts[a].wsTimeout = "armed"
  /\ Commit(WV_wsTimeout(Cur, a))

-----------------------------------------------------------------------------

Next ==
  \/ \E v \in TypedValues : SetBroadcastId(v)
  \/ ClickConnect
  \/ CallConnectToStreamBlank
  \/ HandleKeyPress
  \/ TryAgain
  \/ ClickDisconnect
  \/ \E a \in Attempts : SigOpen(a)
  \/ \E a \in Attempts : SigError(a)
  \/ \E a \in Attempts : SigClose(a)
  \/ \E a \in Attempts, data \in SignalingData : SigMessage(a, data)
  \/ \E a \in Attempts : SigTimeout(a)
  \/ \E a \in Attempts : PcTrack(a)
  \/ \E a \in Attempts, s \in {"connected", "failed"} : PcStateChange(a, s)
  \/ \E a \in Attempts : WsOpen(a)
  \/ \E a \in Attempts : WsError(a)
  \/ \E a \in Attempts, code \in {NormalClosure, 1001, 1005, 1006} : WsClose(a, code)
  \/ \E a \in Attempts, data \in FrameData : WsMessage(a, data)
  \/ \E a \in Attempts : WsTimeout(a)

Spec == Init /\ [][Next]_vars

\* What the browser guarantees: an armed timer fires; a connecting socket
\* opens or fails; a socket that close() was called on gets its events.
\* Nothing makes the remote side send a message or a track, and nothing makes
\* the user act.
Fairness ==
  \A a \in 1..MaxAttempts :
    /\ WF_vars(SigTimeout(a))
    /\ WF_vars(WsTimeout(a))
    /\ WF_vars(a \in Attempts /\ attempts[a].signalingWs # "open"
                /\ (SigOpen(a) \/ SigError(a) \/ SigClose(a)))
    /\ WF_vars(a \in Attempts /\ attempts[a].ws # "open"
                /\ (WsOpen(a) \/ WsError(a) \/ \E code \in {NormalClosure, 1005, 1006} : WsClose(a, code)))

FairSpec == Spec /\ Fairness

-----------------------------------------------------------------------------
\* Unmounting the viewer.  React detaches the refs of the elements before it
\* runs the cleanup of an effect, so videoRef.current is null when the
\* cleanup's disconnect() tests it, and the element is left alone.  What the
\* transports do after the unmount is not followed: Commit needs a mounted
\* component.

\* the cleanup of the effect: disconnect()
ViewerUnmount ==
  /\ mounted
  /\ Commit([disconnect(Cur) EXCEPT !.video = video, !.mounted = FALSE])

UnmountNext ==
  \/ Next
  \/ ViewerUnmount

UnmountSpec == Init /\ [][UnmountNext]_vars

-----------------------------------------------------------------------------
\* The candidate handling of one negotiation: the offer and the ice-candidate
\* messages of one signaling socket, and the end of setRemoteDescription.

\* signalingWs.onmessage, case 'offer'; a broadcaster sends one offer
ReceiveOffer ==
  /\ peerConnection.remoteDescription = Null
  /\ peerConnection.operations = <<>>
  /\ peerConnection' = onmessage_offer(peerConnection)
  /\ UNCHANGED <<iceCandidates, signalingWs, offerHandler, viewerVars, mqttVars, frameVars,
                 indexVars>>

\* setRemoteDescription finishes: the description is set, the operations
\* chained behind it run, and the offer handler goes on to the answer
RemoteDescriptionSet ==
  /\ peerConnection.operations # <<>>
  /\ Head(peerConnection.operations) = "setRemoteDescription"
  /\ peerConnection' = RunChain([peerConnection EXCEPT !.remoteDescription = "set",
                                                        !.operations = Tail(@)])
  /\ UNCHANGED <<iceCandidates, signalingWs, offerHandler, viewerVars, mqttVars, frameVars,
                 indexVars>>

\* signalingWs.onmessage, case 'ice-candidate'
ReceiveIceCandidate(c) ==
  /\ Len(iceCandidates.received) < MaxCandidates
  /\ peerConnection' = onmessage_iceCandidate(peerConnection, c)
  /\ iceCandidates' =
       [received |-> Append(iceCandidates.received, c),
        rejected |-> IF AddIceCandidateRejects(peerConnection)
                     THEN Append(iceCandidates.rejected, c)
                     ELSE iceCandidates.rejected]
  /\ UNCHANGED <<signalingWs, offerHandler, viewerVars, mqttVars, frameVars, indexVars>>

IceNext ==
  \/ ReceiveOffer
  \/ RemoteDescriptionSet
  \/ \E c \in Candidates : ReceiveIceCandidate(c)

IceSpec == Init /\ [][IceNext]_vars

-----------------------------------------------------------------------------
\* The same negotiation with its socket: the socket opens and closes, the
\* messages arrive while it is open, the offer case goes on after
\* setRemoteDescription, and the ICE agent gathers candidates once there is a
\* local description.

SignalingOpens ==
  /\ signalingWs.readyState = "connecting"
  /\ signalingWs' = signalingWs_onopen([signalingWs EXCEPT !.readyState = "open"])
  /\ UNCHANGED <<peerConnection, iceCandidates, offerHandler, viewerVars, mqttVars,
                 frameVars, indexVars>>

SignalingCloses ==
  /\ signalingWs.readyState \in {"connecting", "open"}
  /\ signalingWs' = [signalingWs EXCEPT !.readyState = "closed"]
  /\ UNCHANGED <<peerConnection, iceCandidates, offerHandler, viewerVars, mqttVars,
                 frameVars, indexVars>>

\* an awaited call of the offer case after setRemoteDescription finishes, and
\* the handler runs on to its next await: a send that follows is made in the
\* same step
OfferContinues ==
  /\ peerConnection.remoteDescription = "set"
  /\ offerHandler.step < Len(OfferSteps)
  /\ LET k == offerHandler.step + 1
         sends == k < Len(OfferSteps) /\ OfferSteps[k + 1] = "send"
         H == OfferStep_handler(offerHandler, OfferSteps[k])
         W == OfferStep_socket(signalingWs, OfferSteps[k])
     IN /\ offerHandler' = [H EXCEPT !.step = IF sends THEN k + 1 ELSE k]
        /\ signalingWs' = IF sends THEN OfferStep_socket(W, OfferSteps[k + 1]) ELSE W
  /\ UNCHANGED <<peerConnection, iceCandidates, viewerVars, mqttVars, frameVars, indexVars>>

\* peerConnection.onicecandidate
IceCandidateGathered ==
  /\ offerHandler.localDescription # Null
  /\ offerHandler.gathered < MaxGathered
  /\ offerHandler' = [offerHandler EXCEPT !.gathered = @ + 1]
  /\ signalingWs' = onicecandidate(signalingWs)
  /\ UNCHANGED <<peerConnection, iceCandidates, viewerVars, mqttVars, frameVars, indexVars>>

SignalingNext ==
  \/ SignalingOpens
  \/ SignalingCloses
  \/ signalingWs.readyState = "open" /\ ReceiveOffer
  \/ RemoteDescriptionSet
  \/ \E c \in Candidates : signalingWs.readyState = "open" /\ ReceiveIceCandidate(c)
  \/ OfferContinues
  \/ IceCandidateGathered

SignalingSpec == Init /\ [][SignalingNext]_vars

-----------------------------------------------------------------------------
\* useMQTT.  The broker client connects, and on a lost connection emits
\* `close', then `offline' unless it is already reconnecting, and after the
\* reconnect period `reconnect' and tries again; `connect' ends the
\* reconnecting.  `error' reports a refused or failed connection.

\* the effect of the hook: connectToMQTT
Mount ==
  /\ client.phase = "none"
  /\ client' = mqtt_connect
  /\ clientRef' = TRUE
  /\ state' = connectToMQTT(state)
  /\ UNCHANGED <<returned, viewerVars, iceVars, frameVars, indexVars>>

\* the broker accepts the connection: `connect'
ClientConnect ==
  /\ client.phase \in {"connecting", "reconnecting"}
  /\ client.connects < MaxConnects
  /\ state' = on_connect(state)
  /\ client' = Subscribe([client EXCEPT !.phase = "connected", !.reconnecting = FALSE,
                                        !.connects = @ + 1])
  /\ UNCHANGED <<clientRef, returned, viewerVars, iceVars, frameVars, indexVars>>

\* the connection ends or the attempt fails: `close' (logged only), and
\* `offline' when the client was not reconnecting yet
ClientClose ==
  /\ client.phase \in {"connecting", "connected", "reconnecting"}
  /\ state' = IF client.reconnecting THEN state ELSE on_offline(state)
  /\ client' = [client EXCEPT !.phase = "offline", !.reconnecting = TRUE]
  /\ UNCHANGED <<clientRef, returned, viewerVars, iceVars, frameVars, indexVars>>

\* the reconnect period has passed: `reconnect', and a new attempt starts
ClientReconnect ==
  /\ client.phase = "offline"
  /\ state' = on_reconnect(state)
  /\ client' = [client EXCEPT !.phase = "reconnecting"]
  /\ UNCHANGED <<clientRef, returned, viewerVars, iceVars, frameVars, indexVars>>

\* the client reports an error: `error'
ClientError ==
  /\ client.phase \in {"connecting", "connected", "reconnecting"}
  /\ state' = on_error(state)
  /\ UNCHANGED <<client, clientRef, returned, viewerVars, iceVars, frameVars, indexVars>>

\* the broker delivers a message on a subscribed topic: `message'
ClientMessage(topic) ==
  /\ client.phase = "connected"
  /\ client.delivered < MaxMessages
  /\ state' = on_message(state, topic, "jpeg", client.delivered + 1)
  /\ client' = [client EXCEPT !.delivered = @ + 1]
  /\ UNCHANGED <<clientRef, returned, viewerVars, iceVars, frameVars, indexVars>>

\* a caller of the hook calls publishMessage
Publish(message) ==
  /\ client.phase \notin {"none", "ended"}
  /\ Len(client.published) < MaxPublishes
  /\ client' = publishMessage(state, client, ControlTopic, message)
  /\ returned' = <<publishMessage_returns(state)>>
  /\ UNCHANGED <<state, clientRef, viewerVars, iceVars, frameVars, indexVars>>

\* the cleanup of the effect: clientRef.current.end(true)
Unmount ==
  /\ clientRef
  /\ client.phase # "ended"
  /\ client' = [client EXCEPT !.phase = "ended"]
  /\ UNCHANGED <<state, clientRef, returned, viewerVars, iceVars, frameVars, indexVars>>

MqttNext ==
  \/ Mount
  \/ ClientConnect
  \/ ClientClose
  \/ ClientReconnect
  \/ ClientError
  \/ \E topic \in {StreamTopic, CaptureTopic} : ClientMessage(topic)
  \/ \E message \in {"0", "1"} : Publish(message)
  \/ Unmount

MqttSpec == Init /\ [][MqttNext]_vars

-----------------------------------------------------------------------------
\* useMQTT with a broker that also sends DISCONNECT.  The options of the hook
\* name no protocol version, so the client speaks MQTT 3.1.1 and its broker
\* sends no DISCONNECT; the handler of `disconnect' is registered all the
\* same, and this specification lets the broker send one on a connection it
\* has accepted.  The client only emits the event: the connection ends with
\* a `close' as before.

\* the broker sends DISCONNECT: `disconnect'
ClientDisconnect ==
  /\ client.phase = "connected"
  /\ state' = on_disconnect(state)
  /\ UNCHANGED <<client, clientRef, returned, viewerVars, iceVars, frameVars, indexVars>>

BrokerNext == MqttNext \/ ClientDisconnect

BrokerSpec == Init /\ [][BrokerNext]_vars

-----------------------------------------------------------------------------
\* The viewer and the hook on one page: the steps of both, in any order.

\* the bound of this specification: the attempts of the viewer, the connects
\* of the client, and its publishes and messages taken together
Together ==
  /\ Len(attempts) <= MaxTogether
  /\ client.connects <= MaxTogether
  /\ Len(client.published) + client.delivered <= MaxTogether

\* the id is typed before the first attempt
TogetherNext ==
  \/ Next /\ Together' /\ (attempts # <<>> => UNCHANGED broadcastId)
  \/ MqttNext /\ Together'

TogetherSpec == Init /\ [][TogetherNext]_vars

-----------------------------------------------------------------------------
\* Index.  The page mounts the hook, shows its state and calls its
\* publishMessage from the handlers of the control buttons.

\* the page is mounted: the hook has made its client and not ended it
IndexMounted == client.phase \notin {"none", "ended"}

\* the room the bound leaves for a publish that would reach the client
MayPublish == publishMessage_returns(state) => Len(client.published) < MaxPublishes

\* onMouseDown / onTouchStart: handleControlPress(direction)
MouseDown(direction) ==
  /\ IndexMounted
  /\ direction \notin pressed
  /\ MayPublish
  /\ pressed' = pressed \cup {direction}
  /\ IF ButtonEnabled(state)
     THEN /\ client' = publishMessage(state, client, ControlTopicOf(direction), "1")
          /\ activeControls' = handleControlPress(state, activeControls, direction)
     ELSE UNCHANGED <<client, activeControls>>
  /\ UNCHANGED <<state, clientRef, returned, videoStream, capturedImages, frameCount,
                 effectDeps, now, viewerVars, iceVars, frameVars>>

\* onMouseUp / onTouchEnd: handleControlRelease(direction)
MouseUp(direction) ==
  /\ IndexMounted
  /\ direction \in pressed
  /\ MayPublish
  /\ pressed' = pressed \ {direction}
  /\ IF ButtonEnabled(state)
     THEN /\ client' = publishMessage(state, client, ControlTopicOf(direction), "0")
          /\ activeControls' = handleControlRelease(state, activeControls, direction)
     ELSE UNCHANGED <<client, activeControls>>
  /\ UNCHANGED <<state, clientRef, returned, videoStream, capturedImages, frameCount,
                 effectDeps, now, viewerVars, iceVars, frameVars>>

\* onMouseLeave: handleControlRelease(direction), whether or not the button
\* was pressed and whether or not it is disabled; a button the pointer has left
\* gets no mouseup
MouseLeave(direction) ==
  /\ IndexMounted
  /\ MayPublish
  /\ pressed' = pressed \ {direction}
  /\ client' = publishMessage(state, client, ControlTopicOf(direction), "0")
  /\ activeControls' = handleControlRelease(state, activeControls, direction)
  /\ UNCHANGED <<state, clientRef, returned, videoStream, capturedImages, frameCount,
                 effectDeps, now, viewerVars, iceVars, frameVars>>

\* onClick of the capture button: handleCapture
ClickCapture ==
  /\ IndexMounted
  /\ ButtonEnabled(state)
  /\ MayPublish
  /\ client' = publishMessage(state, client, CaptureTopic, "1")
  /\ UNCHANGED <<state, clientRef, returned, indexVars, viewerVars, iceVars, frameVars>>

\* The effect with the dependency lastMessage.  React runs it after a render
\* in which lastMessage is another object than in the render before; state
\* updates made before React has rendered are applied together, so the effect
\* sees the last of them only.
MessageEffect ==
  /\ IndexMounted
  /\ state.lastMessage # effectDeps
  /\ effectDeps' = state.lastMessage
  /\ videoStream' = effect_videoStream(state.lastMessage, videoStream)
  /\ frameCount' = effect_frameCount(state.lastMessage, frameCount)
  /\ capturedImages' = effect_capturedImages(state.lastMessage, capturedImages, now)
  /\ UNCHANGED <<activeControls, pressed, now, mqttVars, viewerVars, iceVars, frameVars>>

\* onClick of the delete button of an image
DeleteImage(imageId) ==
  /\ IndexMounted
  /\ \E i \in DOMAIN capturedImages : capturedImages[i].id = imageId
  /\ capturedImages' = deleteImage(capturedImages, imageId)
  /\ UNCHANGED <<videoStream, activeControls, frameCount, effectDeps, pressed, now,
                 mqttVars, viewerVars, iceVars, frameVars>>

\* a millisecond passes
Tick ==
  /\ now < MaxNow
  /\ now' = now + 1
  /\ UNCHANGED <<videoStream, capturedImages, activeControls, frameCount, effectDeps,
                 pressed, mqttVars, viewerVars, iceVars, frameVars>>

IndexNext ==
  \/ Mount
  \/ ClientConnect
  \/ ClientClose
  \/ ClientReconnect
  \/ ClientError
  \/ \E topic \in {StreamTopic, CaptureTopic} : ClientMessage(topic)
  \/ Unmount
  \/ \E direction \in Directions : MouseDown(direction)
  \/ \E direction \in Directions : MouseUp(direction)
  \/ \E direction \in Directions : MouseLeave(direction)
  \/ ClickCapture
  \/ MessageEffect
  \/ \E imageId \in 1..MaxNow : DeleteImage(imageId)
  \/ Tick

IndexSpec == Init /\ [][IndexNext]_vars

-----------------------------------------------------------------------------
\* The binary frames of one open frame socket.  disconnect() closes the
\* socket when websocketRef still holds it; a later attempt may have
\* overwritten the ref, and then the socket stays open.  A closed socket
\* delivers nothing.  The timers are not cleared by anything.

\* ws.onmessage with a Blob
FrameArrives ==
  /\ ws = "open"
  /\ Len(objectURLs) < MaxFrames
  /\ objectURLs' = IF IsWV THEN WV_onBlob_objectURLs(objectURLs, videoRef)
                   ELSE SV_onBlob_objectURLs(objectURLs, videoRef)
  /\ videoRef' = onBlob_videoRef(objectURLs, videoRef)
  /\ UNCHANGED <<ws, viewerVars, iceVars, mqttVars, indexVars>>

\* the timer set for a URL fires
RevokeTimeout(url) ==
  /\ url \in DOMAIN objectURLs
  /\ objectURLs[url].timer
  /\ objectURLs' = revokeObjectURL(objectURLs, url)
  /\ UNCHANGED <<videoRef, ws, viewerVars, iceVars, mqttVars, indexVars>>

\* disconnect() of the mounted component: the session ends
FrameDisconnect(held) ==
  /\ videoRef.current
  /\ ws = "open"
  /\ videoRef' = disconnect_videoRef(videoRef)
  /\ ws' = IF held THEN "closed" ELSE ws
  /\ UNCHANGED <<objectURLs, viewerVars, iceVars, mqttVars, indexVars>>

\* the component unmounts: the ref of the element is detached, then the
\* cleanup calls disconnect()
FrameUnmount(held) ==
  /\ videoRef.current
  /\ videoRef' = disconnect_videoRef([videoRef EXCEPT !.current = FALSE])
  /\ ws' = IF held THEN "closed" ELSE ws
  /\ UNCHANGED <<objectURLs, viewerVars, iceVars, mqttVars, indexVars>>

FrameNext ==
  \/ FrameArrives
  \/ \E url \in 1..MaxFrames : RevokeTimeout(url)
  \/ \E held \in BOOLEAN : FrameDisconnect(held)
  \/ \E held \in BOOLEAN : FrameUnmount(held)

FrameSpec == Init /\ [][FrameNext]_vars

\* a timer that is set fires
FrameFairSpec == FrameSpec /\ \A url \in 1..MaxFrames : WF_vars(RevokeTimeout(url))

-----------------------------------------------------------------------------
\* Vocabulary of the properties.

\* the state the view shows of the session
Session ==
  <<isConnecting, isConnected, error, viewerCount, streamQuality, connectionType, video>>

\* a transport of attempt a is live: not closed, and close() not called on it
Live(a) ==
  \/ PeerLive(attempts[a].peerConnection)
  \/ SocketLive(attempts[a].signalingWs)
  \/ SocketLive(attempts[a].ws)

\* the negotiation of attempt a has not settled
InFlight(a) == attempts[a].webrtc = "pending" \/ attempts[a].websocket = "pending"

\* a step that is a transport event or a timer of attempt a
EventOf(a) ==
  \/ SigOpen(a) \/ SigError(a) \/ SigClose(a) \/ SigTimeout(a)
  \/ \E data \in SignalingData : SigMessage(a, data)
  \/ PcTrack(a)
  \/ \E s \in {"connected", "failed"} : PcStateChange(a, s)
  \/ WsOpen(a) \/ WsError(a) \/ WsTimeout(a)
  \/ \E code \in {NormalClosure, 1001, 1005, 1006} : WsClose(a, code)
  \/ \E data \in FrameData : WsMessage(a, data)

\* the state disconnect() leaves: Idle, no error, every ref null
Disconnected ==
  /\ ~isConnecting /\ ~isConnected /\ error = Null
  /\ peerConnectionRef = 0 /\ websocketRef = 0 /\ signalingWsRef = 0

-----------------------------------------------------------------------------
\* C1: the status never stays Connecting forever: whenever it is Connecting
\* it later is something else (Connected or Error, if the attempt settles).
\* Refuted under FairSpec: once the signaling socket has opened, the open
\* timer is cleared (WebcamViewer) or never existed (StreamViewer), and if the
\* remote side stays silent nothing ends the attempt.
C1_ConnectingSettles ==
  [](StatusText(Cur) = "Connecting" => <>(StatusText(Cur) # "Connecting"))

\* C2: after the primary negotiation of an attempt was rejected, a fallback
\* frame socket was started for it and the id in its address /stream/{id} is
\* the string used in /signaling/viewer/{id}.  Refuted in WebcamViewer, which
\* trims the id for the fallback address only.
C2_FallbackSameId ==
  \A a \in Attempts :
    attempts[a].webrtc = "rejected" =>
      /\ attempts[a].ws # "none"
      /\ attempts[a].streamUrl = attempts[a].signalingUrl

\* C3: in the step in which the fallback of an attempt is rejected after its
\* primary was, the status becomes Error (error set, neither connecting nor
\* connected) and no transport of the attempt stays live.  Refuted: the catch
\* block closes nothing.
C3_BothFailedLeavesNothingLive ==
  [][\A a \in Attempts :
       (attempts[a].websocket = "pending" /\ attempts'[a].websocket = "rejected") =>
         /\ error' # Null /\ ~isConnecting' /\ ~isConnected'
         /\ ~PeerLive(attempts'[a].peerConnection)
         /\ ~SocketLive(attempts'[a].signalingWs)
         /\ ~SocketLive(attempts'[a].ws)]_vars

\* C4: while the primary negotiation of an attempt is pending and the session
\* is not connected, the peer connection state becoming failed, a signaling
\* message of type error, the expiry of the signaling open timer and a
\* signaling message of type stream-not-found each reject the negotiation.
\* Refuted in WebcamViewer, whose onconnectionstatechange sets an error on
\* `failed' and rejects nothing.
C4_FailureEventsReject ==
  [][\A a \in Attempts :
       ( /\ attempts[a].webrtc = "pending"
         /\ ~isConnected
         /\ \/ PcStateChange(a, "failed")
            \/ SigMessage(a, Json("error"))
            \/ SigTimeout(a)
            \/ SigMessage(a, Json("stream-not-found")) )
       => attempts'[a].webrtc = "rejected"]_vars

\* C5: no step taken while the status is Connecting or Connected starts a
\* negotiation.  Refuted in WebcamViewer: handleKeyPress tests isConnecting
\* only, so Enter while Connected calls connectToStream.
C5_NoReentrantConnect ==
  [][StatusText(Cur) \in {"Connecting", "Connected"} => Len(attempts') = Len(attempts)]_vars

\* C6: once a later attempt exists, the events of an earlier attempt whose
\* negotiation is still pending leave the session state unchanged.  Refuted:
\* no handler checks which attempt it belongs to.
C6_LateEventsDiscarded ==
  [][\A a \in Attempts :
       (a < Len(attempts) /\ attempts[a].webrtc = "pending" /\ EventOf(a))
       => UNCHANGED Session]_vars

\* C7: after disconnect(), the events of an attempt whose negotiation had not
\* settled leave the session as disconnect() left it: Idle, no error, and no
\* transport opened (every ref still null).  Refuted: disconnect() settles no
\* promise and clears no timer, so a later rejection starts the fallback.
C7_DisconnectCancelsAttempt ==
  [][\A a \in Attempts :
       (Disconnected /\ InFlight(a) /\ EventOf(a)) => Disconnected']_vars

\* C8: a second disconnect() right after the first changes nothing, and the
\* close event of a frame socket that disconnect() closed leaves the status
\* Idle with no error.  Refuted: ws.onclose sets 'Connection lost' (always in
\* StreamViewer, for every code but 1000 in WebcamViewer, and close() without
\* a code does not yield 1000 unless the server says so).
C8_DisconnectIdempotent ==
  [][ /\ ClickDisconnect => (disconnect(Cur) = Cur)'
      /\ \A a \in Attempts :
           ( /\ Disconnected
             /\ attempts[a].ws = "closing"
             /\ \E code \in {NormalClosure, 1005, 1006} : WsClose(a, code) )
           => (~isConnecting' /\ ~isConnected' /\ error' = Null) ]_vars

\* C9: when disconnect() returns, no transport of any attempt is live, the
\* displayed media is cleared, the viewer count is 0 and the transport kind
\* is none.  Refuted in StreamViewer, whose signaling socket is a local of
\* connectWebRTC that disconnect() cannot reach, and in WebcamViewer when a
\* later attempt has overwritten the refs.
C9_DisconnectClosesEverything ==
  [][ClickDisconnect =>
       /\ \A a \in Attempts : ~Live(a)'
       /\ video' = [srcObject |-> 0, src |-> ""]
       /\ viewerCount' = 0
       /\ connectionType' = Null]_vars

\* C10: connectToStream entered with an empty or whitespace-only id sets the
\* validation error and does nothing else: no socket and no peer connection
\* is created, no ref is set, and isConnecting keeps its value.
C10_BlankIdRejected ==
  [][CallConnectToStreamBlank =>
       /\ error' = ValidationMsg
       /\ attempts' = attempts
       /\ UNCHANGED <<peerConnectionRef, websocketRef, signalingWsRef>>
       /\ UNCHANGED <<isConnecting, isConnected>>]_vars

\* C10's case: the validation error is shown for a whitespace-only id.
C10_Witness ==
  /\ error = ValidationMsg
  /\ broadcastId = <<" ">>
  /\ ~isConnecting

\* C11: no ice-candidate message is dropped: none has its addIceCandidate
\* rejected, none reaches the ICE agent before the remote description is set,
\* and once the description is set and the chain is empty the candidates
\* added are the candidates received, in the order received.  Refuted: a
\* candidate that arrives before the offer is added at once, the call rejects
\* because the remote description is null, and nothing keeps the candidate.
C11_CandidatesKept ==
  /\ iceCandidates.rejected = <<>>
  /\ peerConnection.remoteDescription = Null => peerConnection.candidates = <<>>
  /\ (peerConnection.remoteDescription = "set" /\ peerConnection.operations = <<>>)
       => peerConnection.candidates = iceCandidates.received

\* C12: a stream-ended message received while Connected, on the signaling
\* socket or on the frame socket, closes every transport of the attempt in
\* the same turn and leaves the 'Stream has ended' message set.  Refuted: the
\* handler sets the message and then calls disconnect(), whose setError(null)
\* is the later update, so the session ends Idle with no message.
C12_StreamEndedSurfaces ==
  [][\A a \in Attempts :
       ( /\ isConnected
         /\ \/ SigMessage(a, Json("stream-ended"))
            \/ WsMessage(a, Json("stream-ended")) )
       => (error' = StreamEndedMsg /\ ~Live(a)')]_vars

\* C13: the close of a frame socket leaves 'Connection lost' set when the
\* socket was open with the session connected through it and the code is not
\* the normal one, and raises it in no other case: not after a failed open
\* and not after disconnect() closed the socket.  Refuted: onclose never
\* looks at whether the socket had opened or who closed it.
C13_ConnectionLostOnlyAbnormal ==
  [][\A a \in Attempts :
       LET wasConnected == attempts[a].websocket = "resolved" /\ attempts[a].ws = "open"
           raised == error # ConnectionLostMsg /\ error' = ConnectionLostMsg
       IN /\ WsError(a) => IF wasConnected THEN error' = ConnectionLostMsg ELSE ~raised
          /\ \A code \in {NormalClosure, 1001, 1005, 1006} :
               WsClose(a, code) =>
                 IF wasConnected /\ code # NormalClosure
                 THEN error' = ConnectionLostMsg
                 ELSE ~raised]_vars

\* C14: when the open timer of the signaling socket or of the frame socket
\* expires, the pending promise is rejected and the socket is closed.
\* Refuted: the timer callback only rejects; the socket stays CONNECTING and
\* its later events still run their handlers.
C14_TimeoutClosesSocket ==
  [][\A a \in Attempts :
       /\ SigTimeout(a) =>
            (attempts'[a].webrtc = "rejected" /\ ~SocketLive(attempts'[a].signalingWs))
       /\ WsTimeout(a) =>
            (attempts'[a].websocket = "rejected" /\ ~SocketLive(attempts'[a].ws))]_vars

\* C15: once the fallback frame socket of an attempt has been started, the
\* peer connection and the signaling socket of that attempt are not live; in
\* particular not while the session is connected through the fallback.
\* Refuted: the catch that starts the fallback closes nothing.
C15_FallbackLeavesNoPrimary ==
  \A a \in Attempts :
    attempts[a].ws # "none" =>
      /\ ~PeerLive(attempts[a].peerConnection)
      /\ ~SocketLive(attempts[a].signalingWs)

\* C16: while the latest attempt is connecting and its fallback has not been
\* rejected, no error is set.  Refuted: WebcamViewer's
\* onconnectionstatechange sets an error on `failed' while the negotiation is
\* still pending.
C16_NoErrorBeforeFinalFailure ==
  \A a \in Attempts :
    (a = Len(attempts) /\ isConnecting /\ attempts[a].websocket # "rejected")
    => error = Null

\* C17: a stream-info message, on the signaling socket or on the frame
\* socket, leaves everything but the viewer count and the quality unchanged:
\* the flags, the error, the transport kind, the media, the refs and the
\* transports.
C17_StreamInfoOnlyCounters ==
  [][\A a \in Attempts : \A data \in StreamInfos :
       (SigMessage(a, data) \/ WsMessage(a, data)) =>
         UNCHANGED <<broadcastId, isConnecting, isConnected, error, connectionType,
                     video, peerConnectionRef, websocketRef, signalingWsRef, attempts>>]_vars

\* C17's case: a stream-info message has set the quality and the count while
\* the attempt that received it was connecting on an open signaling socket.
C17_Witness ==
  /\ streamQuality = "SD"
  /\ viewerCount = MaxViewerCount
  /\ isConnecting
  /\ error = Null
  /\ \E a \in Attempts : attempts[a].signalingWs = "open" /\ attempts[a].webrtc = "pending"

\* C18: a call of publishMessage made while connectionStatus is not Connected
\* returns false and hands nothing to the client.
C18_PublishNeedsConnected ==
  [][\A message \in {"0", "1"} :
       (state.connectionStatus # "Connected" /\ Publish(message))
       => (returned' = <<FALSE>> /\ client'.published = client.published)]_vars

\* C18's case: after a publish that reached the client, the connection was
\* lost, and a call made while the wrapper is Reconnecting returned false.
C18_Witness ==
  /\ state.connectionStatus = "Reconnecting"
  /\ client.phase = "reconnecting"
  /\ returned = <<FALSE>>
  /\ client.published # <<>>

\* C19: when the connection of a Connected wrapper is lost, the status goes
\* to Reconnecting (and from there to Connected) without being Disconnected
\* or Error in between.  Refuted: the client emits `offline' before
\* `reconnect', and the offline handler sets Disconnected.
C19_DropGoesToReconnecting ==
  [][(state.connectionStatus = "Connected" /\ ClientClose)
     => state'.connectionStatus \in {"Connected", "Reconnecting"}]_vars

\* C20: every connect event issues one subscribe at QoS 1 for each of the two
\* camera topics, in that order, and nothing else ever subscribes.
C20_SubscribesOnEveryConnect ==
  [][ /\ ClientConnect =>
           client'.subscribes =
             client.subscribes \o << [topic |-> "userxyz/device/cam/stream", qos |-> 1],
                                     [topic |-> "userxyz/device/cam/capture", qos |-> 1] >>
      /\ client'.subscribes # client.subscribes => ClientConnect ]_vars

\* C20's case: the client has connected, lost the connection and connected
\* again, and has subscribed both times.
C20_Witness ==
  /\ client.connects = 2
  /\ state.connectionStatus = "Connected"
  /\ Len(client.subscribes) = 4

\* C21: the cleanup of the hook ends the broker client and leaves the wrapper
\* Disconnected with isConnected false, whatever the status was.  Refuted:
\* the cleanup only calls end(true), which emits neither `offline' nor
\* `disconnect', and sets no state.
C21_TeardownLeavesDisconnected ==
  [][Unmount => /\ client'.phase = "ended"
                /\ state'.connectionStatus = "Disconnected"
                /\ ~state'.isConnected]_vars

\* C22: when the component unmounts, disconnect() runs whatever the status
\* is, and after it no peer connection, signaling socket or frame socket of
\* any attempt is live.  Refuted: disconnect() closes only what the refs
\* hold.
C22_UnmountLeavesNothingLive ==
  [][ViewerUnmount => \A a \in Attempts : ~Live(a)']_vars

\* C23: every object URL made for a binary frame is revoked in the end, also
\* when the element is absent and when the session has ended.  Refuted:
\* StreamViewer revokes none, and WebcamViewer sets the timer that revokes
\* only when the element is there.
C23_FramesRevoked ==
  \A url \in 1..MaxFrames :
    [](url \in DOMAIN objectURLs
         => <>(url \in DOMAIN objectURLs /\ objectURLs[url].revoked))

\* C24: the release of a control whose press published "1" (the direction is
\* in the active set) publishes "0" once on the direction's topic and takes
\* the direction out of the active set, whatever happened to the broker
\* connection in between.  Refuted: handleControlRelease does both only when
\* publishMessage returns true.
C24_ReleaseFollowsPress ==
  [][\A direction \in Directions :
       (direction \in pressed /\ direction \in activeControls /\ direction \notin pressed')
       => /\ direction \notin activeControls'
          /\ client'.published =
               Append(client.published,
                      [topic |-> ControlTopicOf(direction), message |-> "0", qos |-> 1])]_vars

\* C25: every message delivered on cam/capture adds one entry to the
\* captured images and the entry stays until the user deletes it, also when
\* messages arrive before the view has dealt with the one before; a message
\* on cam/stream adds none.  In steps: a capture message the effect has not
\* run for yet is not replaced; the effect adds one entry for a capture
\* message and none for a stream message; the list shrinks only by a delete,
\* and by one entry.  Refuted: lastMessage holds one message, and the ids are
\* the clock's milliseconds.
C25_CaptureAddsOneEntry ==
  [][ /\ ( /\ state.lastMessage # <<>>
           /\ state.lastMessage # effectDeps
           /\ state.lastMessage[1].topic = "userxyz/device/cam/capture" )
         => state'.lastMessage = state.lastMessage
      /\ MessageEffect =>
           Len(capturedImages') = Len(capturedImages)
             + (IF state.lastMessage[1].topic = "userxyz/device/cam/capture" THEN 1 ELSE 0)
      /\ capturedImages' # capturedImages =>
           \/ MessageEffect
           \/ /\ \E imageId \in 1..MaxNow : DeleteImage(imageId)
              /\ Len(capturedImages') = Len(capturedImages) - 1 ]_vars

\* C26: a signaling message with a type tag the handler has no case for
\* changes nothing: the state, the refs, the transports and the promises of
\* every attempt are as before.
C26_UnknownTagIgnored ==
  \A a \in Attempts :
    attempts[a].signalingWs = "open"
    => (IF IsWV THEN WV_signalingWs_onmessage(Cur, a, Json("unknown"))
        ELSE SV_signalingWs_onmessage(Cur, a, Json("unknown"))) = Cur

\* C26's case: a negotiation is under way (the offer is applied, the promise
\* is pending) on an open signaling socket of WebcamViewer, where such a
\* message can arrive.
C26_Witness ==
  /\ IsWV
  /\ \E a \in Attempts :
       /\ attempts[a].signalingWs = "open"
       /\ attempts[a].webrtc = "pending"
       /\ attempts[a].remoteDescription
       /\ WV_signalingWs_onmessage(Cur, a, Json("unknown")) = Cur

\* C27: a text that is not JSON, received on the frame socket, changes
\* nothing: status, error, refs and transports are as before and the socket
\* is still open.
C27_NonJsonFrameIgnored ==
  \A a \in Attempts :
    attempts[a].ws = "open"
    => LET S == IF IsWV THEN WV_ws_onmessage(Cur, a, NotJson)
                ELSE SV_ws_onmessage(Cur, a, NotJson)
       IN S = Cur /\ S.attempts[a].ws = "open"

\* C27's case: WebcamViewer is Connected through the frame socket, which is
\* open and held by websocketRef, with no error shown.
C27_Witness ==
  /\ IsWV
  /\ isConnected
  /\ error = Null
  /\ \E a \in Attempts :
       /\ attempts[a].ws = "open"
       /\ websocketRef = a
       /\ WV_ws_onmessage(Cur, a, NotJson) = Cur

\* C28: no step of the broker session (an event of the client, a publish,
\* mount and cleanup of the hook) changes the state, the refs or a transport
\* of the video session, and no step of the video session changes the state
\* of the hook or its client.
C28_SessionsIndependent ==
  [][ /\ MqttNext => UNCHANGED viewerVars
      /\ Next => UNCHANGED mqttVars ]_vars

\* C28's case: the broker connection was lost and the wrapper is
\* Reconnecting while the viewer is Connected over an open transport.
C28_Witness ==
  /\ state.connectionStatus = "Reconnecting"
  /\ client.connects = 1
  /\ isConnected
  /\ \E a \in Attempts : Live(a)

\* the messages of a type sent on the signaling socket
Sent(type) == {i \in DOMAIN signalingWs.sent : signalingWs.sent[i] = type}

\* C29: on one signaling socket nothing is sent before it is open;
\* join-stream is the first message and is sent once, when the socket opens;
\* an answer is sent only for a received offer, once the offer is the remote
\* description and the answer is the local description.
C29_SignalingOrder ==
  /\ signalingWs.readyState = "connecting" => signalingWs.sent = <<>>
  /\ signalingWs.readyState = "open" => Cardinality(Sent("join-stream")) = 1
  /\ signalingWs.sent # <<>> => signalingWs.sent[1] = "join-stream"
  /\ Cardinality(Sent("join-stream")) <= 1
  /\ Cardinality(Sent("answer")) <= 1
  /\ Sent("answer") # {}
       => /\ peerConnection.remoteDescription = "set"
          /\ offerHandler.answer = "answer"
          /\ offerHandler.localDescription = "answer"

\* C29's case: the socket opened, the offer was received and answered, and a
\* gathered candidate was sent after the answer.
C29_Witness ==
  /\ Len(signalingWs.sent) >= 3
  /\ signalingWs.sent[1] = "join-stream"
  /\ signalingWs.sent[2] = "answer"
  /\ signalingWs.sent[3] = "ice-candidate"

\* C30: in WebcamViewer, when the signaling socket of the session closes
\* while the session is Connected over WebRTC, the error becomes 'Signaling
\* connection lost': the handler tests the connected flag as it is at the
\* close.  Refuted: the handler tests the isConnected of the render in which
\* connectWebRTC was called.
C30_SignalingLossReported ==
  [][\A a \in Attempts :
       ( /\ IsWV
         /\ isConnected
         /\ connectionType = "WebRTC"
         /\ signalingWsRef = a
         /\ attempts[a].signalingWs = "open"
         /\ SigClose(a) )
       => error' = "Signaling connection lost"]_vars

\* C31: in every reachable state of the viewer the connecting flag and the
\* connected flag are not both true.
C31_StatusSingleValued == ~(isConnecting /\ isConnected)

\* C32: in WebcamViewer, in every state reached after a handler and its
\* continuations have run, a Connected session has the transport kind WebRTC
\* or WebSocket and the kind names the transport that carries the session (the
\* peer connection or the frame socket the refs hold, still live), and a
\* session that is neither Connected nor Connecting has the transport kind
\* none.
C32_TransportKindFollowsStatus ==
  IsWV =>
    /\ isConnected =>
         \/ /\ connectionType = "WebRTC"
            /\ peerConnectionRef # 0
            /\ PeerLive(attempts[peerConnectionRef].peerConnection)
         \/ /\ connectionType = "WebSocket"
            /\ websocketRef # 0
            /\ attempts[websocketRef].ws = "open"
    /\ (~isConnected /\ ~isConnecting) => connectionType = Null

\* C33: in every reachable state of the viewer a displayed error and the
\* Connected status exclude each other: whenever the error field is non-null
\* the connected flag is false.
C33_ErrorExcludesConnected == error # Null => ~isConnected

\* C34: once an attempt has been reported as failed (both transports rejected
\* and the negotiation error set), no later event of that attempt sets the
\* connected flag to true: while no later connect call has been made, a
\* transport event or timer of the failed attempt leaves the session not
\* Connected.
C34_FailedAttemptStaysFailed ==
  [][\A a \in Attempts :
       ( /\ a = Len(attempts)
         /\ attempts[a].webrtc = "rejected"
         /\ attempts[a].websocket = "rejected"
         /\ error = (IF IsWV THEN WV_NegotiationMsg ELSE SV_NegotiationMsg)
         /\ ~isConnected
         /\ EventOf(a) )
       => ~isConnected']_vars

\* C35: in the hook, after any sequence of broker client events (connect,
\* error, disconnect, reconnect, offline, message) that the client can emit,
\* isConnected is true if and only if connectionStatus is Connected.  The
\* handler of `reconnect' leaves isConnected alone; the client emits
\* `offline' before the first `reconnect' after a connection, and that
\* handler has set isConnected to false by then.
C35_ConnectedIffStatus ==
  state.isConnected <=> state.connectionStatus = "Connected"

\* the client reconnects after a connection the broker had accepted
C35_Witness ==
  /\ client.connects >= 1
  /\ state.connectionStatus = "Reconnecting"
  /\ ~state.isConnected

\* C36: in the hook, after any sequence of broker client events, the error
\* field is non-null only while connectionStatus is Error (every transition
\* out of Error clears the error), and whenever the status is Connected the
\* error is null and the client handle is non-null.
C36_ErrorOnlyInErrorStatus ==
  /\ state.error # Null => state.connectionStatus = "Error"
  /\ state.connectionStatus = "Connected" =>
       state.error = Null /\ state.client # Null

\* C37: in the control view, after any sequence of presses, releases and
\* broker status changes, a direction is in the active set if and only if
\* the most recent publish on its control topic for which publishMessage
\* returned true carried the payload "1"; and a press or a release for which
\* publishMessage returned false leaves the active set unchanged.  A press
\* or a release is a step that changes the set of buttons held down.
C37_ActiveSetFollowsPublishes ==
  /\ [](\A direction \in Directions :
          LET on == SelectSeq(client.published,
                              LAMBDA p : p.topic = ControlTopicOf(direction))
          IN direction \in activeControls <=>
               (on # <<>> /\ on[Len(on)].message = "1"))
  /\ [][(~publishMessage_returns(state) /\ pressed' # pressed)
          => activeControls' = activeControls]_vars

\* a direction was activated, the broker connection was lost, and the release
\* (the pointer leaving the button) could not be published: it is still active
C37_Witness ==
  /\ "front" \in activeControls
  /\ "front" \notin pressed
  /\ ~state.isConnected
  /\ \E i \in DOMAIN client.published :
       client.published[i] = [topic |-> ControlTopicOf("front"), message |-> "1", qos |-> 1]

====
